---- MODULE Spec2Model ----
(***************************************************************************)
(* Model of sniplates/templatetags/sniplates.py: the widget libraries of   *)
(* one render pass.                                                        *)
(*                                                                         *)
(* The render context (context.render_context) is a stack of dicts; a      *)
(* lookup or an assignment by key acts on the top dict.  BlockContext      *)
(* instances and the widget table are heap objects, named by their index   *)
(* in regs and tabs, so that "the same registry" means the same instance.  *)
(* A block body is rendered by the host engine: while a block is being     *)
(* rendered any directive may run next, the block may return, or it may    *)
(* raise.  `with context.update(d)` is the host's scoped push: the layer   *)
(* is popped on exit, also when the body raises.  The render context has   *)
(* no update method.                                                       *)
(***************************************************************************)
EXTENDS Naturals, Sequences, FiniteSets, TLC

VARIABLES pc, err, rc, regs, tabs, ctx, frames, last

vars == <<pc, err, rc, regs, tabs, ctx, frames, last>>

\* ---------------------------------------------------------------- bounds
MaxDepth == 2

MaxResolves == 3

\* ------------------------------------------------------------- constants
\* A key that is not in a dict of the render context (a lookup raises
\* KeyError); object ids start at 1.
NoKey == 0

\* Python's None where a block is expected.
NoBlock == [doc |-> "", name |-> ""]

\* The template documents of the render: the blocks each declares and the
\* document it extends ("" for none).  A extends B extends C.
Templates ==
    [d \in {"A", "B", "C", "X", "Y"} |->
        CASE d = "A" -> [blocks |-> {"x"}, extends |-> "B"]
          [] d = "B" -> [blocks |-> {"b"}, extends |-> "C"]
          [] d = "C" -> [blocks |-> {"x", "y"}, extends |-> ""]
          [] d = "X" -> [blocks |-> {"blk", "title", "TextInput"}, extends |-> ""]
          [] d = "Y" -> [blocks |-> {"blk"}, extends |-> ""]]

\* ------------------------------------------------------------ BlockContext
\* django.template.loader_tags.BlockContext as the source uses it: a
\* defaultdict of lists; add_blocks inserts at the front, get_block reads
\* the back, pop takes the back off and push puts a block at the back.
BlockContext == [n \in {} |-> <<>>]

\* blocks[name] of the defaultdict: a name that is not a key becomes one,
\* with the empty list.
Touch(bc, name) ==
    [n \in (DOMAIN bc) \cup {name} |-> IF n \in DOMAIN bc THEN bc[n] ELSE <<>>]

AddBlocks(bc, blocks) ==
    [n \in (DOMAIN bc) \cup (DOMAIN blocks) |->
        IF n \in DOMAIN blocks
        THEN <<blocks[n]>> \o (IF n \in DOMAIN bc THEN bc[n] ELSE <<>>)
        ELSE bc[n]]

\* get_block(name): blocks[name][-1], None for the empty list; the
\* BlockContext afterwards has the name as a key.
GetBlock(bc, name) ==
    [block |-> IF name \in DOMAIN bc /\ Len(bc[name]) > 0
               THEN bc[name][Len(bc[name])]
               ELSE NoBlock,
     blocks |-> Touch(bc, name)]

\* pop(name): blocks[name].pop(), None for the empty list.
BlockPop(bc, name) ==
    [block |-> GetBlock(bc, name).block,
     blocks |-> [Touch(bc, name) EXCEPT ![name] =
                    IF @ = <<>> THEN @ ELSE SubSeq(@, 1, Len(@) - 1)]]

\* push(name, block): blocks[name].append(block).
BlockPush(bc, name, block) ==
    [Touch(bc, name) EXCEPT ![name] = Append(@, block)]

\* ---------------------------------------------------------- render context
Top(s) == s[Len(s)]

Pop(s) == SubSeq(s, 1, Len(s) - 1)

\* render_context[key] = value: sets the key in the top dict.
SetTop(s, key, value) == [s EXCEPT ![Len(s)] = [@ EXCEPT ![key] = value]]

\* ------------------------------------------------------------------- errors
NoError == [type |-> "", msg |-> ""]

\* str.__contains__ for one character.
RECURSIVE Contains(_, _)
Contains(str, ch) ==
    IF Len(str) = 0 THEN FALSE
    ELSE IF SubSeq(str, 1, 1) = ch THEN TRUE
    ELSE Contains(SubSeq(str, 2, Len(str)), ch)

\* The quote repr puts around a str: the double quote when the str has a
\* single quote and no double quote, the single quote otherwise.
ReprQuote(str) ==
    IF Contains(str, "'") /\ ~Contains(str, "\"") THEN "\"" ELSE "'"

\* The characters of U+0001..U+00FF that str.isprintable rejects, other
\* than tab, newline and carriage return, each with the \xNN escape repr
\* writes for it: the C0 controls, DEL, the C1 controls, the no-break space
\* and the soft hyphen.  The left item of a pair is the character itself.
\* Strings of the model are over U+0001..U+00FF.
NonPrintable ==
    { <<"", "\\x01">>, <<"", "\\x02">>, <<"", "\\x03">>,
      <<"", "\\x04">>, <<"", "\\x05">>, <<"", "\\x06">>, <<"", "\\x07">>,
      <<"", "\\x08">>, <<"", "\\x0b">>, <<"\f", "\\x0c">>, <<"", "\\x0e">>,
      <<"", "\\x0f">>, <<"", "\\x10">>, <<"", "\\x11">>, <<"", "\\x12">>,
      <<"", "\\x13">>, <<"", "\\x14">>, <<"", "\\x15">>, <<"", "\\x16">>,
      <<"", "\\x17">>, <<"", "\\x18">>, <<"", "\\x19">>, <<"", "\\x1a">>,
      <<"", "\\x1b">>, <<"", "\\x1c">>, <<"", "\\x1d">>, <<"", "\\x1e">>,
      <<"", "\\x1f">>, <<"", "\\x7f">>, <<"", "\\x80">>, <<"", "\\x81">>,
      <<"", "\\x82">>, <<"", "\\x83">>, <<"", "\\x84">>, <<"", "\\x85">>,
      <<"", "\\x86">>, <<"", "\\x87">>, <<"", "\\x88">>, <<"", "\\x89">>,
      <<"", "\\x8a">>, <<"", "\\x8b">>, <<"", "\\x8c">>, <<"", "\\x8d">>,
      <<"", "\\x8e">>, <<"", "\\x8f">>, <<"", "\\x90">>, <<"", "\\x91">>,
      <<"", "\\x92">>, <<"", "\\x93">>, <<"", "\\x94">>, <<"", "\\x95">>,
      <<"", "\\x96">>, <<"", "\\x97">>, <<"", "\\x98">>, <<"", "\\x99">>,
      <<"", "\\x9a">>, <<"", "\\x9b">>, <<"", "\\x9c">>, <<"", "\\x9d">>,
      <<"", "\\x9e">>, <<"", "\\x9f">>, <<" ", "\\xa0">>, <<"­", "\\xad">> }

\* One character as repr writes it between the quotes: the backslash, the
\* quote in use, newline, carriage return and tab are escaped with a
\* backslash, every other non-printable character is written \xNN, and a
\* printable character stands for itself.
ReprChar(ch, quote) ==
    CASE ch = "\\" -> "\\\\"
      [] ch = quote -> "\\" \o quote
      [] ch = "\n" -> "\\n"
      [] ch = "\r" -> "\\r"
      [] ch = "\t" -> "\\t"
      [] OTHER -> LET hit == {p \in NonPrintable : p[1] = ch}
                  IN  IF hit = {} THEN ch ELSE (CHOOSE p \in hit : TRUE)[2]

\* The characters of a str as repr writes them between the quotes.
RECURSIVE ReprChars(_, _)
ReprChars(str, quote) ==
    IF Len(str) = 0 THEN ""
    ELSE ReprChar(SubSeq(str, 1, 1), quote)
             \o ReprChars(SubSeq(str, 2, Len(str)), quote)

\* '%r' of a str, and of a tuple of strs.
Repr(str) == ReprQuote(str) \o ReprChars(str, ReprQuote(str)) \o ReprQuote(str)

RECURSIVE ReprItems(_)
ReprItems(names) ==
    IF names = <<>> THEN ""
    ELSE IF Len(names) = 1 THEN Repr(names[1])
    ELSE Repr(names[1]) \o ", " \o ReprItems(Tail(names))

ReprTuple(names) ==
    IF Len(names) = 1 THEN "(" \o Repr(names[1]) \o ",)"
    ELSE "(" \o ReprItems(names) \o ")"

TemplateSyntaxError(msg) == [type |-> "TemplateSyntaxError", msg |-> msg]

\* Line 85.
BadWidgetName(widget) ==
    TemplateSyntaxError("widget name must be \"alias:block_name\" - " \o widget)

\* Line 104.
NoLibraries == TemplateSyntaxError("No widget libraries loaded!")

\* Line 110.
UnknownAlias(alias) ==
    TemplateSyntaxError("No widget library loaded for alias: " \o Repr(alias))

\* Line 133.
NoWidgetFound(names) ==
    TemplateSyntaxError("No widget found for: " \o ReprTuple(names))

\* A dict, or the context, has no such key.
KeyError(key) == [type |-> "KeyError", msg |-> key]

\* Line 126: the top dict has no BlockContext.
NoBlockContext == KeyError("block_context")

\* A global name that the module neither defines nor imports is read.
NameError(name) ==
    [type |-> "NameError", msg |-> "name '" \o name \o "' is not defined"]

\* Line 153: render_context.update does not exist.
NoUpdate ==
    [type |-> "AttributeError",
     msg |-> "'RenderContext' object has no attribute 'update'"]

\* get_template finds no template of the name.
TemplateDoesNotExist(name) == [type |-> "TemplateDoesNotExist", msg |-> name]

\* Whatever the host raises while it renders a block.
RenderError == [type |-> "Exception", msg |-> ""]

\* The environment the helpers work on: the render context and the heap.
Env(rc_, regs_, tabs_) ==
    [rc |-> rc_, regs |-> regs_, tabs |-> tabs_, err |-> NoError]

Fail(env, e) == [env EXCEPT !.err = e]

\* ----------------------------------------------------------- resolve_blocks
\* local_blocks: name -> BlockNode of one template.
LocalBlocks(doc) ==
    [n \in Templates[doc].blocks |-> [doc |-> doc, name |-> n]]

\* Lines 45-48: the BlockContext of the top dict, created when absent.
EnsureBlocks(env) ==
    IF Top(env.rc).blocks # NoKey
    THEN env
    ELSE [env EXCEPT !.regs = Append(env.regs, BlockContext),
                     !.rc = SetTop(env.rc, "blocks", Len(env.regs) + 1)]

\* Mutant of ResolveBlocks: the parent's blocks are added before the
\* template's own.
RECURSIVE ResolveBlocksParentFirst(_, _)
ResolveBlocksParentFirst(template, env) ==
    LET e1 == EnsureBlocks(env)
        blocks == Top(e1.rc).blocks
    IN  IF template \notin DOMAIN Templates
        THEN Fail(e1, TemplateDoesNotExist(template))
        ELSE LET e2 == IF Templates[template].extends # ""
                       THEN ResolveBlocksParentFirst(Templates[template].extends, e1)
                       ELSE e1
             IN  [e2 EXCEPT !.regs[blocks] =
                     AddBlocks(e2.regs[blocks], LocalBlocks(template))]

RECURSIVE ResolveBlocks(_, _)
ResolveBlocks(template, env) ==
    LET e1 == EnsureBlocks(env)
        blocks == Top(e1.rc).blocks
    IN  IF template \notin DOMAIN Templates
        THEN Fail(e1, TemplateDoesNotExist(template))
        ELSE LET e2 == [e1 EXCEPT !.regs[blocks] =
                            AddBlocks(e1.regs[blocks], LocalBlocks(template))]
             IN  IF Templates[template].extends # ""
                 THEN ResolveBlocks(Templates[template].extends, e2)
                 ELSE e2

\* -------------------------------------------------------- parse_widget_name
\* A widget reference is a string, given here as its sequence of pieces,
\* the separator ":" being a piece of its own: <<"p", ":", "x">> is "p:x".
RECURSIVE Join(_)
Join(parts) == IF parts = <<>> THEN "" ELSE Head(parts) \o Join(Tail(parts))

RECURSIVE Find(_, _, _)
\* The index of the first piece equal to sep at or after i; 0 when none.
Find(parts, sep, i) ==
    IF i > Len(parts) THEN 0
    ELSE IF parts[i] = sep THEN i
    ELSE Find(parts, sep, i + 1)

\* widget.split(':', 1): one split at the first ":"; no ":" is an error.
ParseWidgetName(widget) ==
    LET i == Find(widget, ":", 1)
    IN  IF i = 0
        THEN [err |-> BadWidgetName(Join(widget)), alias |-> "", block_name |-> ""]
        ELSE [err |-> NoError,
              alias |-> Join(SubSeq(widget, 1, i - 1)),
              block_name |-> Join(SubSeq(widget, i + 1, Len(widget)))]

\* -------------------------------------------------------------------- using
\* Mutant of UsingEnter: an alias that cannot be found falls back to the
\* current scope.
UsingEnterLenient(env, alias) ==
    IF alias = "" \/ Top(env.rc).widgets = NoKey THEN env
    ELSE IF alias \notin DOMAIN env.tabs[Top(env.rc).widgets] THEN env
    ELSE [env EXCEPT !.rc = Append(env.rc,
              [blocks |-> env.tabs[Top(env.rc).widgets][alias],
               widgets |-> Top(env.rc).widgets])]

\* Mutant of UsingEnter: the empty alias is looked up like any other.
UsingEnterNoEmpty(env, alias) ==
    IF Top(env.rc).widgets = NoKey THEN Fail(env, NoLibraries)
    ELSE IF alias \notin DOMAIN env.tabs[Top(env.rc).widgets]
    THEN Fail(env, UnknownAlias(alias))
    ELSE [env EXCEPT !.rc = Append(env.rc,
              [blocks |-> env.tabs[Top(env.rc).widgets][alias],
               widgets |-> Top(env.rc).widgets])]

\* Mutant of UsingEnter: the layer is pushed before the table and the
\* alias are looked up.
UsingEnterPushFirst(env, alias) ==
    IF alias = "" THEN env
    ELSE LET e1 == [env EXCEPT !.rc = Append(env.rc, Top(env.rc))]
         IN  IF Top(env.rc).widgets = NoKey THEN Fail(e1, NoLibraries)
             ELSE IF alias \notin DOMAIN env.tabs[Top(env.rc).widgets]
             THEN Fail(e1, UnknownAlias(alias))
             ELSE [e1 EXCEPT !.rc = SetTop(e1.rc, "blocks",
                       env.tabs[Top(env.rc).widgets][alias])]

\* Lines 98-115, up to the yield: nothing for the empty alias; otherwise
\* the table and the alias are looked up and a layer is pushed that holds
\* the alias's BlockContext and the same table.
UsingEnter(env, alias) ==
    IF alias = "" THEN env
    ELSE IF Top(env.rc).widgets = NoKey THEN Fail(env, NoLibraries)
    ELSE LET widgets == Top(env.rc).widgets
         IN  IF alias \notin DOMAIN env.tabs[widgets]
             THEN Fail(env, UnknownAlias(alias))
             ELSE [env EXCEPT !.rc = Append(env.rc,
                        [blocks |-> env.tabs[widgets][alias],
                         widgets |-> widgets])]

\* Mutant of UsingExit: the layer is never popped.
UsingExitKeeps(rc_, alias) == rc_

\* Line 119: the body of the with statement returned, the generator resumes
\* after the yield.
UsingExit(rc_, alias) == IF alias = "" THEN rc_ ELSE Pop(rc_)

\* Line 117: the body of the with statement raised.  The error is thrown
\* into the generator at the yield, which is in no try/finally: it leaves
\* the generator at once and line 119 does not run.
UsingThrow(rc_, alias) == rc_

\* --------------------------------------------------------------- find_block
\* Mutant of FirstBlock: the last name with a block.
RECURSIVE FirstBlockLast(_, _)
FirstBlockLast(bc, names) ==
    IF names = <<>> THEN [block |-> NoBlock, blocks |-> bc]
    ELSE LET rest == FirstBlockLast(bc, Tail(names))
         IN  IF rest.block # NoBlock THEN rest
             ELSE GetBlock(rest.blocks, Head(names))

RECURSIVE FirstBlock(_, _)
\* The loop of lines 127-130 (and 394-397): the first name with a block;
\* every name that was tried is a key of the BlockContext afterwards.
FirstBlock(bc, names) ==
    IF names = <<>> THEN [block |-> NoBlock, blocks |-> bc]
    ELSE LET got == GetBlock(bc, Head(names))
         IN  IF got.block # NoBlock THEN got
             ELSE FirstBlock(got.blocks, Tail(names))

\* Mutant of FindBlock: the lookup reads the bottom dict of the render
\* context, the page's registry.
FindBlockPage(env, names) ==
    IF env.rc[1].blocks = NoKey
    THEN [err |-> NoBlockContext, block |-> NoBlock, regs |-> env.regs]
    ELSE LET found == FirstBlock(env.regs[env.rc[1].blocks], names)
             regs_ == [env.regs EXCEPT ![env.rc[1].blocks] = found.blocks]
         IN  IF found.block # NoBlock
             THEN [err |-> NoError, block |-> found.block, regs |-> regs_]
             ELSE [err |-> NoWidgetFound(names), block |-> NoBlock, regs |-> regs_]

\* Lines 126-134: the block, or the error, and the heap after the lookups.
FindBlock(env, names) ==
    IF Top(env.rc).blocks = NoKey
    THEN [err |-> NoBlockContext, block |-> NoBlock, regs |-> env.regs]
    ELSE LET found == FirstBlock(env.regs[Top(env.rc).blocks], names)
             regs_ == [env.regs EXCEPT ![Top(env.rc).blocks] = found.blocks]
         IN  IF found.block # NoBlock
             THEN [err |-> NoError, block |-> found.block, regs |-> regs_]
             ELSE [err |-> NoWidgetFound(names), block |-> NoBlock, regs |-> regs_]

\* -------------------------------------------------------------------- reuse
\* Lines 391-392: a block_list that is a single name becomes a list.
AsList(name) == <<name>>

\* Mutant of ReuseBlockContext: the BlockContext of the page, the bottom
\* dict.
ReuseBlockContextPage(env) ==
    IF env.rc[1].blocks = NoKey THEN BlockContext
    ELSE env.regs[env.rc[1].blocks]

\* Lines 386-389: the BlockContext of the top dict, an empty one when the
\* top dict has none.
ReuseBlockContext(env) ==
    IF Top(env.rc).blocks = NoKey THEN BlockContext
    ELSE env.regs[Top(env.rc).blocks]

\* ------------------------------------------------------------- load_widgets
\* Lines 144-147: the table of the top dict, created when absent.
EnsureWidgets(env) ==
    IF Top(env.rc).widgets # NoKey
    THEN env
    ELSE [env EXCEPT !.tabs = Append(env.tabs, [a \in {} |-> NoKey]),
                     !.rc = SetTop(env.rc, "widgets", Len(env.tabs) + 1)]

\* Line 153 for one alias: context.render_context.update is looked up, and
\* the render context (django.template.context.RenderContext) has no such
\* attribute; only the template context has an update method.  The with
\* statement is never entered: lines 154-155 do not run.
LoadOne(env, widgets, alias, template_name) == Fail(env, NoUpdate)

\* Line 150: a soft load skips an alias that is in the table.
Skips(soft, table, alias) == soft /\ alias \in DOMAIN table

RECURSIVE LoadLoop(_, _, _, _)
\* Lines 149-155: kwargs in the order of the dict, as <<alias, name>> pairs.
LoadLoop(env, widgets, soft, kwargs) ==
    IF kwargs = <<>> \/ env.err # NoError THEN env
    ELSE IF Skips(soft, env.tabs[widgets], kwargs[1][1])
         THEN LoadLoop(env, widgets, soft, Tail(kwargs))
         ELSE LoadLoop(LoadOne(env, widgets, kwargs[1][1], kwargs[1][2]),
                       widgets, soft, Tail(kwargs))

LoadWidgets(env, soft, kwargs) ==
    LET e1 == EnsureWidgets(env)
    IN  LoadLoop(e1, Top(e1.rc).widgets, soft, kwargs)

\* ------------------------------------------------------------ variable scope
\* The template context (context): a stack of dicts; context.update(d)
\* pushes d, context[k] = v sets k in the top dict.
EmptyDict == [k \in {} |-> ""]

DictUpdate(d, e) ==
    [k \in (DOMAIN d) \cup (DOMAIN e) |-> IF k \in DOMAIN e THEN e[k] ELSE d[k]]

\* Mutant of SetVar: the assignment is lost.
SetVarLost(s, key, value) == s

\* context[key] = value: sets the key in the top dict.
SetVar(s, key, value) ==
    [s EXCEPT ![Len(s)] = DictUpdate(@, [k \in {key} |-> value])]

\* context[key]: the value of the topmost dict that has the key; a
\* KeyError when no dict has it.
RECURSIVE Lookup(_, _)
Lookup(s, key) ==
    IF s = <<>> THEN [err |-> KeyError(key), value |-> ""]
    ELSE IF key \in DOMAIN Top(s) THEN [err |-> NoError, value |-> Top(s)[key]]
    ELSE Lookup(Pop(s), key)

\* Mutant of ContentLayer: the body is bound under another name.
ContentLayerMisnamed(content) == [k \in {"contents"} |-> content]

\* Line 240: the dict that holds the rendered nested body.
ContentLayer(content) == [k \in {"content"} |-> content]

\* block.render(context), the host's BlockNode.render, in three parts.  It
\* starts by pushing a dict on the context that binds `block`, and by
\* taking the block of its name off the BlockContext of the top dict (the
\* one find_block read): while a block is rendered it is not in its
\* registry.  It renders the block's own text.  When that returns, the
\* block is put back at the end of its list; when that raises, it is not.
BlockLayer(block) == [k \in {"block"} |-> "<BlockNode " \o block.name \o ">"]

\* The block that is rendered (the one taken off, the block itself when the
\* list was empty), the block to put back, and the heap meanwhile.
RenderEnter(regs_, reg, block) ==
    LET popped == BlockPop(regs_[reg], block.name)
    IN  [block |-> IF popped.block # NoBlock THEN popped.block ELSE block,
         push |-> popped.block,
         regs |-> [regs_ EXCEPT ![reg] = popped.blocks]]

Text(block) == block.doc \o "." \o block.name

\* The heap after the block has returned.
RenderExit(regs_, reg, push) ==
    IF push = NoBlock THEN regs_
    ELSE [regs_ EXCEPT ![reg] = BlockPush(@, push.name, push)]

\* -------------------------------------------------------------- auto_widget
\* Lines 356-367: the seven names, most specific first.
AutoWidget(field) ==
    << field.field \o "_" \o field.widget \o "_" \o field.name,
       field.field \o "_" \o field.name,
       field.widget \o "_" \o field.name,
       field.field \o "_" \o field.widget,
       field.name,
       field.widget,
       field.field >>

\* ------------------------------------------------------------------- inputs
\* A widget reference "alias:name" as its pieces.
Ref(alias, name) == IF alias = "" THEN <<":", name>> ELSE <<alias, ":", name>>

CharField(name) == [field |-> "CharField", widget |-> "TextInput", name |-> name]

\* The directives the templates of a render may hold, each with its
\* arguments: load_widgets <<_soft, kwargs>> with kwargs in the order of the
\* dict, widget and nested_widget <<reference, kwargs, asvar>>, the strings a
\* nested body renders to, form_field <<field, widget, kwargs>> (widget <<>>
\* is None), reuse <<names, kwargs>> with a list of names and reuse1
\* <<name, kwargs>> with a single name.
\*
\* Scopes: templates that nest widgets of p and q, and load libraries.
Scopes ==
    [load |-> {<<FALSE, <<<<"p", "A">>, <<"q", "X">>>>>>, <<FALSE, <<>>>>,
               <<TRUE, <<<<"p", "X">>>>>>},
     widget |-> {<<r, EmptyDict, "">> :
                    r \in {Ref("p", "x"), Ref("p", "blk"), Ref("q", "blk"),
                           Ref("zzz", "blk"), Ref("it's", "x"), Ref("", "x"),
                           Ref("", "blk"), <<"x">>,
                           <<"p", ":", "x", ":", "y">>}},
     nested |-> {<<r, EmptyDict, "">> :
                    r \in {Ref("q", "blk"), Ref("p", "x"), Ref("", "x"),
                           Ref("", "blk")}},
     body |-> {"c1"},
     field |-> {<<CharField(n), <<>>, [k \in {"alias"} |-> "q"]>> :
                   n \in {"title", "other"}}
               \cup {<<CharField("title"), <<>>, [k \in {"alias"} |-> "p"]>>,
                     <<CharField("title"), <<>>, EmptyDict>>,
                     <<CharField("title"), Ref("", "blk"), EmptyDict>>,
                     <<CharField("title"), Ref("", "x"), EmptyDict>>,
                     <<CharField("title"), <<"blk">>, EmptyDict>>},
     reuse |-> {<<<<"nope", "x">>, EmptyDict>>},
     reuse1 |-> {}]

\* Libraries: templates that load p and q, softly or not, from several
\* documents, and render widgets of both.
Libraries ==
    [load |-> {<<soft, kw>> :
                  soft \in BOOLEAN,
                  kw \in {<<<<"p", "A">>>>, <<<<"p", "X">>>>, <<<<"q", "X">>>>,
                          <<<<"q", "nope">>>>,
                          <<<<"p", "A">>, <<"q", "X">>>>,
                          <<<<"q", "X">>, <<"p", "A">>>>}},
     widget |-> {<<r, EmptyDict, "">> :
                    r \in {Ref("p", "x"), Ref("p", "y"), Ref("p", "blk"),
                           Ref("q", "x"), Ref("q", "blk")}},
     nested |-> {<<Ref("p", "x"), EmptyDict, "">>, <<Ref("", "blk"), EmptyDict, "">>},
     body |-> {"c1"},
     field |-> {<<CharField("title"), Ref("q", "blk"), EmptyDict>>},
     reuse |-> {<<<<"nope", "blk">>, EmptyDict>>},
     reuse1 |-> {}]

\* Variables: templates that render widgets of p and q with overrides,
\* with `as` variables and with nested bodies.
Variables ==
    [load |-> {<<FALSE, <<<<"p", "A">>, <<"q", "X">>>>>>},
     widget |-> {<<Ref("q", "blk"), [k \in {"k"} |-> "v"], "r">>,
                 <<Ref("p", "nope"), [k \in {"k"} |-> "v"], "r">>},
     nested |-> {<<Ref("q", "blk"), [k \in {"r"} |-> "v"], "r">>,
                 <<Ref("p", "x"), [k \in {"content"} |-> "mine"], "">>},
     body |-> {"c1", "c2"},
     field |-> {<<CharField("title"), Ref("q", "title"),
                  [k \in {"name"} |-> "n"]>>},
     reuse |-> {<<<<"nope", "x">>, [k \in {"k"} |-> "w"]>>},
     reuse1 |-> {<<"x", [k \in {"k"} |-> "w"]>>}]

\* -------------------------------------------------------------------- state
\* What the last step did, for the properties.  op is the step; a step
\* that enters or raises records the directive (kind, alias, names) and
\* whether a using scope had been pushed; a step that leaves a directive
\* records the block, the returned string and the render context from
\* before the directive; load_widgets records its arguments and the heap
\* and table from before the call; ctxBefore is the context from before the
\* directive.
NoEvent ==
    [op |-> "init", kind |-> "", alias |-> "", names |-> <<>>, soft |-> FALSE,
     block |-> NoBlock, ret |-> "", entered |-> FALSE, rcBefore |-> <<>>,
     regsBefore |-> <<>>, tabsBefore |-> <<>>, ctxBefore |-> <<>>]

\* The BlockContext resolve_blocks returns for a template when the top
\* dict has none: the registry of a library.
Library(template) ==
    ResolveBlocks(template,
                  Env(<<[blocks |-> NoKey, widgets |-> NoKey]>>, <<>>, <<>>)).regs[1]

\* A render context of one dict before any directive has run.  The dict
\* holds a BlockContext when the page extends another template (the page's
\* own blocks, template Y) and none otherwise.  With loaded it holds a
\* widget table as well, the one using reads on lines 102 and 107, with p
\* bound to the registry of A and q to the registry of X.
Start(page, loaded) ==
    /\ pc = "run"
    /\ err = NoError
    /\ LET own == IF page THEN <<AddBlocks(BlockContext, LocalBlocks("Y"))>>
                  ELSE <<>>
       IN  /\ regs = own \o (IF loaded THEN <<Library("A"), Library("X")>>
                             ELSE <<>>)
           /\ tabs = IF loaded
                     THEN <<[a \in {"p", "q"} |->
                               IF a = "p" THEN Len(own) + 1 ELSE Len(own) + 2]>>
                     ELSE <<>>
           /\ rc = <<[blocks |-> IF page THEN 1 ELSE NoKey,
                      widgets |-> IF loaded THEN 1 ELSE NoKey]>>
    /\ ctx = <<EmptyDict>>
    /\ frames = <<>>
    /\ last = NoEvent

\* The render context at the start of a render: no widget table yet.  The
\* table is created on line 147 and an alias is bound on line 155 only.
Init == \E page \in BOOLEAN : Start(page, FALSE)

\* The render contexts using, find_block and the render methods may be
\* called with: those of Init, and those in which the table of
\* render_context['_widgets_'] binds p and q.  Line 155, the one place of
\* the module that binds an alias, is not reached (line 153 raises), so a
\* render that starts in Init never has such a table: InitGiven is a
\* superset of the start states, for the properties of the code that reads
\* the table.
InitGiven == \E page \in BOOLEAN, loaded \in BOOLEAN : Start(page, loaded)

\* A directive raised before any block was entered.
Raise(e, kind, alias, names, rc_, regs_, entered) ==
    /\ pc' = "raise"
    /\ err' = e
    /\ rc' = rc_
    /\ regs' = regs_
    /\ last' = [NoEvent EXCEPT !.op = "raise", !.kind = kind, !.alias = alias,
                             !.names = names, !.entered = entered,
                             !.rcBefore = rc, !.regsBefore = regs,
                             !.ctxBefore = ctx]
    /\ UNCHANGED <<tabs, ctx, frames>>

\* Mutant of Call: nested_widget renders the nested body before the alias's
\* scope is pushed.
CallBodyOutside(kind, alias, names, overrides, asvar) ==
    LET e1 == UsingEnter(Env(rc, regs, tabs), alias)
        fb == FindBlock(e1, names)
        reg == Top(e1.rc).blocks
        body == kind = "nested_widget"
        r == RenderEnter(fb.regs, reg, fb.block)
    IN  IF e1.err # NoError
        THEN Raise(e1.err, kind, alias, names, e1.rc, regs, FALSE)
        ELSE IF fb.err # NoError
        THEN Raise(fb.err, kind, alias, names, UsingThrow(e1.rc, alias),
                   fb.regs, alias # "")
        ELSE /\ rc' = IF body THEN rc ELSE e1.rc
             /\ regs' = IF body THEN fb.regs ELSE r.regs
             /\ ctx' = IF body THEN Append(ctx, overrides)
                       ELSE ctx \o <<overrides, BlockLayer(r.block)>>
             /\ frames' = Append(frames,
                    [kind |-> kind, alias |-> alias, asvar |-> asvar,
                     names |-> names, block |-> fb.block,
                     push |-> IF body THEN NoBlock ELSE r.push, reg |-> reg,
                     phase |-> IF body THEN "body" ELSE "block",
                     rcBefore |-> rc, kwargs |-> overrides, ctxBefore |-> ctx])
             /\ last' = [NoEvent EXCEPT !.op = "enter", !.kind = kind,
                              !.alias = alias, !.names = names,
                              !.block = fb.block, !.entered = alias # "",
                              !.rcBefore = rc, !.regsBefore = regs,
                              !.ctxBefore = ctx]
             /\ UNCHANGED <<pc, err, tabs>>

\* Lines 178-186, 230-239: using, find_block, context.update, and
\* the host starts to render (the nested body, or the block).
Call(kind, alias, names, overrides, asvar) ==
    LET e1 == UsingEnter(Env(rc, regs, tabs), alias)
        fb == FindBlock(e1, names)
        reg == Top(e1.rc).blocks
        body == kind = "nested_widget"
        r == RenderEnter(fb.regs, reg, fb.block)
    IN  IF e1.err # NoError
        THEN Raise(e1.err, kind, alias, names, e1.rc, regs, FALSE)
        ELSE IF fb.err # NoError
        THEN Raise(fb.err, kind, alias, names, UsingThrow(e1.rc, alias),
                   fb.regs, alias # "")
        ELSE /\ rc' = e1.rc
             /\ regs' = IF body THEN fb.regs ELSE r.regs
             /\ ctx' = IF body THEN Append(ctx, overrides)
                       ELSE ctx \o <<overrides, BlockLayer(r.block)>>
             /\ frames' = Append(frames,
                    [kind |-> kind, alias |-> alias, asvar |-> asvar,
                     names |-> names, block |-> fb.block,
                     push |-> IF body THEN NoBlock ELSE r.push, reg |-> reg,
                     phase |-> IF body THEN "body" ELSE "block",
                     rcBefore |-> rc, kwargs |-> overrides, ctxBefore |-> ctx])
             /\ last' = [NoEvent EXCEPT !.op = "enter", !.kind = kind,
                              !.alias = alias, !.names = names,
                              !.block = fb.block, !.entered = alias # "",
                              !.rcBefore = rc, !.regsBefore = regs,
                              !.ctxBefore = ctx]
             /\ UNCHANGED <<pc, err, tabs>>

\* ------------------------------------------------------------------ actions
\* {% load_widgets alias=name ... [_soft=True] %}
LoadWidgetsTag(calls) ==
    /\ pc = "run"
    /\ \E c \in calls :
          LET soft == c[1]
              kwargs == c[2]
              e == LoadWidgets(Env(rc, regs, tabs), soft, kwargs)
          IN  /\ rc' = e.rc
              /\ regs' = e.regs
              /\ tabs' = e.tabs
              /\ pc' = IF e.err # NoError THEN "raise" ELSE "run"
              /\ err' = e.err
              /\ last' = [NoEvent EXCEPT
                              !.op = IF e.err # NoError THEN "raise" ELSE "load",
                              !.kind = "load_widgets", !.names = kwargs,
                              !.soft = soft, !.rcBefore = rc,
                              !.regsBefore = regs, !.tabsBefore = tabs,
                              !.ctxBefore = ctx]
              /\ UNCHANGED <<ctx, frames>>

\* {% widget ref key=val ... [as asvar] %}: Widget.render up to block.render.
WidgetTag(calls) ==
    /\ pc = "run"
    /\ Len(frames) < MaxDepth
    /\ \E c \in calls :
          LET w == ParseWidgetName(c[1])
          IN  IF w.err # NoError
              THEN Raise(w.err, "widget", "", <<>>, rc, regs, FALSE)
              ELSE Call("widget", w.alias, <<w.block_name>>, c[2], c[3])

\* {% nested_widget ref key=val ... [as asvar] %}: NestedWidget.render up to
\* the rendering of the nested body.
NestedWidgetTag(calls) ==
    /\ pc = "run"
    /\ Len(frames) < MaxDepth
    /\ \E c \in calls :
          LET w == ParseWidgetName(c[1])
          IN  IF w.err # NoError
              THEN Raise(w.err, "nested_widget", "", <<>>, rc, regs, FALSE)
              ELSE Call("nested_widget", w.alias, <<w.block_name>>, c[2], c[3])

\* Lines 239-241: the nested body has been rendered to content; content is
\* pushed and the host starts to render the block.
NestedBodyDone(texts) ==
    /\ pc = "run"
    /\ frames # <<>>
    /\ Top(frames).phase = "body"
    /\ \E content \in texts :
          LET r == RenderEnter(regs, Top(frames).reg, Top(frames).block)
          IN  /\ ctx' = ctx \o <<ContentLayer(content), BlockLayer(r.block)>>
              /\ regs' = r.regs
              /\ frames' = [frames EXCEPT ![Len(frames)].phase = "block",
                                          ![Len(frames)].push = r.push]
              /\ last' = [NoEvent EXCEPT !.op = "body", !.kind = "nested_widget",
                               !.alias = Top(frames).alias,
                               !.names = Top(frames).names,
                               !.block = Top(frames).block, !.ret = content,
                               !.entered = Top(frames).alias # "",
                               !.rcBefore = Top(frames).rcBefore,
                               !.regsBefore = regs,
                               !.ctxBefore = Top(frames).ctxBefore]
    /\ UNCHANGED <<pc, err, rc, tabs>>

\* {% form_field field [widget] key=val ... %}.  Lines 285-291 take the
\* alias and the candidate names from the widget reference or, without one,
\* from the alias keyword ("form" when absent) and auto_widget; a reference
\* without ":" raises there.  Lines 293-305 fill a local dict from the
\* field.  Line 307 reads FIELD, a name the module does not define: the
\* call raises NameError before using is called on line 340, so no scope
\* is activated, no name is looked up, nothing is pushed on the context and
\* no block is rendered.
FormFieldTag(calls) ==
    /\ pc = "run"
    /\ \E c \in calls :
          LET field == c[1]
              widget == c[2]
              kwargs == c[3]
          IN
          IF widget = <<>>
          THEN Raise(NameError("FIELD"), "form_field",
                     IF "alias" \in DOMAIN kwargs THEN kwargs["alias"] ELSE "form",
                     AutoWidget(field), rc, regs, FALSE)
          ELSE LET w == ParseWidgetName(widget)
               IN  IF w.err # NoError
                   THEN Raise(w.err, "form_field", "", <<>>, rc, regs, FALSE)
                   ELSE Raise(NameError("FIELD"), "form_field", w.alias,
                              <<w.block_name>>, rc, regs, FALSE)

\* {% reuse names key=val ... %} up to block.render; '' when no name matches.
\* Without a BlockContext in the top dict the names are looked up in a
\* BlockContext of the call's own, which has no block.
ReuseTag(calls) ==
    /\ pc = "run"
    /\ Len(frames) < MaxDepth
    /\ \E c \in calls :
          LET block_list == c[1]
              kwargs == c[2]
              reg == Top(rc).blocks
              found == FirstBlock(ReuseBlockContext(Env(rc, regs, tabs)), block_list)
              regs1 == IF reg = NoKey THEN regs
                       ELSE [regs EXCEPT ![reg] = found.blocks]
              r == RenderEnter(regs1, reg, found.block)
          IN  IF found.block = NoBlock
              THEN /\ regs' = regs1
                   /\ last' = [NoEvent EXCEPT !.op = "empty", !.kind = "reuse",
                                    !.names = block_list, !.rcBefore = rc,
                                    !.regsBefore = regs, !.ctxBefore = ctx]
                   /\ UNCHANGED <<pc, err, rc, tabs, ctx, frames>>
              ELSE /\ regs' = r.regs
                   /\ ctx' = ctx \o <<kwargs, BlockLayer(r.block)>>
                   /\ frames' = Append(frames,
                          [kind |-> "reuse", alias |-> "", asvar |-> "",
                           names |-> block_list, block |-> found.block,
                           push |-> r.push, reg |-> reg, phase |-> "block",
                           rcBefore |-> rc, kwargs |-> kwargs,
                           ctxBefore |-> ctx])
                   /\ last' = [NoEvent EXCEPT !.op = "enter", !.kind = "reuse",
                                    !.names = block_list, !.block = found.block,
                                    !.rcBefore = rc, !.regsBefore = regs,
                                    !.ctxBefore = ctx]
                   /\ UNCHANGED <<pc, err, rc, tabs>>

\* Mutant of Pushed: the layers are left on the context.
PushedNone(frame) == 0

\* The dicts that are on the context for a directive: its overrides; for a
\* nested_widget whose body is done, the content; and while the block is
\* rendered, the host's dict that binds `block`.
Pushed(frame) ==
    IF frame.phase = "body" THEN 1
    ELSE IF frame.kind = "nested_widget" THEN 3
    ELSE 2

\* block.render returned: lines 186-192, 241-247, 402.
BlockReturn ==
    /\ pc = "run"
    /\ frames # <<>>
    /\ Top(frames).phase = "block"
    /\ LET f == Top(frames)
           result == Text(IF f.push # NoBlock THEN f.push ELSE f.block)
           ctx1 == SubSeq(ctx, 1, Len(ctx) - Pushed(f))
       IN  /\ ctx' = IF f.asvar # "" THEN SetVar(ctx1, f.asvar, result) ELSE ctx1
           /\ rc' = UsingExit(rc, f.alias)
           /\ regs' = RenderExit(regs, f.reg, f.push)
           /\ frames' = Pop(frames)
           /\ last' = [NoEvent EXCEPT !.op = "return", !.block = f.block,
                            !.ret = IF f.asvar # "" THEN "" ELSE result,
                            !.entered = f.alias # "", !.rcBefore = f.rcBefore,
                            !.ctxBefore = f.ctxBefore]
    /\ UNCHANGED <<pc, err, tabs>>

\* The host raises while it renders the nested body or the block.
BlockRaise ==
    /\ pc = "run"
    /\ frames # <<>>
    /\ pc' = "raise"
    /\ err' = RenderError
    /\ last' = [NoEvent EXCEPT !.op = "raise", !.kind = "block", !.rcBefore = rc,
                     !.ctxBefore = ctx]
    /\ UNCHANGED <<rc, regs, tabs, ctx, frames>>

\* An error leaves the directive whose body raised it: the host's dict and
\* the context.update layers are popped, the using generator is thrown
\* into; the block that was taken off its registry is not put back.
Unwind ==
    /\ pc = "raise"
    /\ frames # <<>>
    /\ LET f == Top(frames)
       IN  /\ ctx' = SubSeq(ctx, 1, Len(ctx) - Pushed(f))
           /\ rc' = UsingThrow(rc, f.alias)
           /\ frames' = Pop(frames)
           /\ last' = [NoEvent EXCEPT !.op = "unwind", !.entered = f.alias # "",
                            !.rcBefore = f.rcBefore,
                            !.ctxBefore = f.ctxBefore]
    /\ UNCHANGED <<pc, err, regs, tabs>>

\* One step of a render of templates that hold the directives of t.
Render(t) ==
    \/ LoadWidgetsTag(t.load)
    \/ WidgetTag(t.widget)
    \/ NestedWidgetTag(t.nested)
    \/ NestedBodyDone(t.body)
    \/ FormFieldTag(t.field)
    \/ ReuseTag(t.reuse \cup {<<AsList(c[1]), c[2]>> : c \in t.reuse1})
    \/ BlockReturn
    \/ BlockRaise
    \/ Unwind

Next == Render(Scopes)

Spec == Init /\ [][Next]_vars

\* Renders of the templates of Scopes, from the render contexts of
\* InitGiven.
SpecGiven == InitGiven /\ [][Next]_vars

NextLibraries == Render(Libraries)

SpecLibraries == Init /\ [][NextLibraries]_vars

NextVariables == Render(Variables)

\* Renders of the templates of Variables, from the render contexts of
\* InitGiven.
SpecVariables == InitGiven /\ [][NextVariables]_vars

\* ------------------------------------------------- resolve_blocks, repeated
\* resolve_blocks called again and again with the same context, for
\* templates given by name: the render context has a BlockContext of its
\* own (empty) or none yet.
InitResolver ==
    /\ pc = "run"
    /\ err = NoError
    /\ \E fresh \in BOOLEAN :
          IF fresh
          THEN /\ regs = <<BlockContext>>
               /\ rc = <<[blocks |-> 1, widgets |-> NoKey]>>
          ELSE /\ regs = <<>>
               /\ rc = <<[blocks |-> NoKey, widgets |-> NoKey]>>
    /\ tabs = <<>>
    /\ ctx = <<EmptyDict>>
    /\ frames = <<>>
    /\ last = NoEvent

\* resolve_blocks(template, context); the event records the names resolved
\* so far and the heap from before the call.
ResolveBlocksCall(templates) ==
    /\ pc = "run"
    /\ Len(last.names) < MaxResolves
    /\ \E template \in templates :
          LET e == ResolveBlocks(template, Env(rc, regs, tabs))
          IN  /\ rc' = e.rc
              /\ regs' = e.regs
              /\ pc' = IF e.err # NoError THEN "raise" ELSE "run"
              /\ err' = e.err
              /\ last' = [NoEvent EXCEPT
                              !.op = IF e.err # NoError THEN "raise" ELSE "resolve",
                              !.kind = "resolve_blocks",
                              !.names = Append(last.names, template),
                              !.rcBefore = rc, !.regsBefore = regs]
    /\ UNCHANGED <<tabs, ctx, frames>>

NextResolver == ResolveBlocksCall({"A", "B", "C", "X", "Y", "nope"})

SpecResolver == InitResolver /\ [][NextResolver]_vars

\* ------------------------------------------------------ find_block, called
\* find_block called with lists of candidate names, among them the lists
\* auto_widget derives from a field, on a render context whose one dict
\* holds the BlockContext of a page made from a document's chain, or none.
InitFinder ==
    /\ pc = "run"
    /\ err = NoError
    /\ \E d \in {"", "A", "B", "C", "X", "Y"} :
          IF d = ""
          THEN /\ regs = <<>>
               /\ rc = <<[blocks |-> NoKey, widgets |-> NoKey]>>
          ELSE /\ regs = <<Library(d)>>
               /\ rc = <<[blocks |-> 1, widgets |-> NoKey]>>
    /\ tabs = <<>>
    /\ ctx = <<EmptyDict>>
    /\ frames = <<>>
    /\ last = NoEvent

\* find_block(context, *names), with names given or names = auto_widget(field).
FindBlockCall(fields, lists) ==
    /\ pc = "run"
    /\ \E names \in lists \cup {AutoWidget(f) : f \in fields} :
          LET found == FindBlock(Env(rc, regs, tabs), names)
          IN  /\ regs' = found.regs
              /\ pc' = IF found.err # NoError THEN "raise" ELSE "run"
              /\ err' = found.err
              /\ last' = [NoEvent EXCEPT
                              !.op = IF found.err # NoError THEN "raise" ELSE "found",
                              !.kind = "find_block", !.names = names,
                              !.block = found.block,
                              !.rcBefore = rc, !.regsBefore = regs]
    /\ UNCHANGED <<rc, tabs, ctx, frames>>

\* The fields whose auto_widget names are looked up, and the other lists
\* of names.
Finder ==
    [fields |-> {CharField("title"), CharField("other")},
     lists |-> {<<"x">>, <<"nope">>, <<"nope", "x">>, <<"y", "x">>,
                <<"x", "y">>, <<"b", "nope", "y">>, <<"blk", "title">>,
                <<"TextInput", "title", "blk">>}]

NextFinder == FindBlockCall(Finder.fields, Finder.lists)

SpecFinder == InitFinder /\ [][NextFinder]_vars

\* =============================================================== properties
\* The directives that activate the alias of a widget reference.
Tags == {"widget", "nested_widget"}

\* The table the top dict of a render context exposes; empty when none.
TableOf(rc_, tabs_) ==
    IF Top(rc_).widgets = NoKey THEN [a \in {} |-> NoKey]
    ELSE tabs_[Top(rc_).widgets]

\* What a lookup of the name in a registry finds; NoBlock when nothing.
BlockAt(bc, name) == GetBlock(bc, name).block

\* The blocks a registry holds, under any name and in any layer.
BlocksOf(bc) == UNION {{bc[n][i] : i \in 1..Len(bc[n])} : n \in DOMAIN bc}

\* The registry that is active in a render context; NoKey when none.
Active(rc_) == Top(rc_).blocks

\* The scope stack of a render context: the registry of each layer.  (A
\* load_widgets inside a block may create the table in a layer; that is no
\* change of scope.)
ScopeStack(rc_) == [i \in 1..Len(rc_) |-> rc_[i].blocks]

\* C2: scopes unwind in LIFO order.  When a block returns, the render
\* context is the one from immediately before that directive's activation;
\* under an enclosing widget the active registry is again the one the
\* enclosing widget's block was found in.
C2_LifoUnwind ==
    last.op = "return" =>
        /\ ScopeStack(rc) = ScopeStack(last.rcBefore)
        /\ frames # <<>> => Active(rc) = Top(frames).reg
        /\ frames = <<>> => Len(rc) = 1

\* A widget of alias q (a block of X) has returned into a block that is
\* being rendered under alias p, whose registry is another one.
C2_Witness ==
    /\ last.op = "return"
    /\ last.entered
    /\ last.block.doc = "X"
    /\ frames # <<>>
    /\ Top(frames).alias = "p"
    /\ Top(frames).block.doc = "A"
    /\ Active(rc) = Top(frames).reg
    /\ Active(Top(frames).rcBefore) # Active(rc)

\* ------------------------------------------------ documents, as declared
\* The inheritance chain of a document, the document first.
RECURSIVE ChainOf(_)
ChainOf(d) ==
    IF Templates[d].extends = "" THEN <<d>>
    ELSE <<d>> \o ChainOf(Templates[d].extends)

\* The documents of a chain, as a set.
ChainDocs(d) == {ChainOf(d)[i] : i \in 1..Len(ChainOf(d))}

\* The definition of block n that a render of document d uses: that of the
\* most-derived document of d's chain that declares n; NoBlock when none.
MostDerived(d, n) ==
    LET c == ChainOf(d)
        at == {i \in 1..Len(c) : n \in Templates[c[i]].blocks}
    IN  IF at = {} THEN NoBlock
        ELSE [doc |-> c[CHOOSE i \in at : \A j \in at : i <= j], name |-> n]

\* Every block name a template declares or a directive asks for.
AllNames ==
    UNION {Templates[d].blocks : d \in DOMAIN Templates}
    \cup {"nope", "x:y", "form"} \cup {AutoWidget(CharField(n))[i] :
                                        n \in {"title", "other"}, i \in 1..7}

\* Registry bc answers every lookup as a render of document d would.
Serves(bc, d) == \A n \in AllNames : BlockAt(bc, n) = MostDerived(d, n)

\* The table before and after the last step.
TableBefore == TableOf(last.rcBefore, last.tabsBefore)

TableNow == TableOf(rc, tabs)

\* The <<alias, document>> pairs of the last load_widgets that line 150 did
\* not skip.
LoadedPairs ==
    {last.names[i] : i \in 1..Len(last.names)} \
    {kw \in {last.names[i] : i \in 1..Len(last.names)} :
        last.soft /\ kw[1] \in DOMAIN TableBefore}

IsLoad == last.kind = "load_widgets" /\ last.op \in {"load", "raise"}

\* C3: alias isolation.  Loading libraries from documents that exist
\* succeeds; distinct aliases are bound to distinct registries; a load adds
\* nothing to a registry that existed before it (another
\* alias's, or the active one) and leaves the scope stack alone; no
\* registry mixes blocks of unrelated documents; and a reference a:n
\* resolves to a block of the registry bound to a, or fails with the lookup
\* error when that registry has no block of the name, whatever the other
\* aliases hold.
C3_AliasIsolation ==
    /\ \A a \in DOMAIN TableNow, b \in DOMAIN TableNow :
          a # b => TableNow[a] # TableNow[b]
    /\ \A i \in 1..Len(regs) :
          \E d \in DOMAIN Templates : \A b \in BlocksOf(regs[i]) : b.doc \in ChainDocs(d)
    /\ IsLoad =>
          /\ (\A kw \in LoadedPairs : kw[2] \in DOMAIN Templates) => last.op = "load"
          /\ \A i \in 1..Len(last.regsBefore) : regs[i] = last.regsBefore[i]
          /\ ScopeStack(rc) = ScopeStack(last.rcBefore)
          /\ last.op = "load" =>
                \A kw \in LoadedPairs :
                    /\ TableNow[kw[1]] > Len(last.regsBefore)
                    /\ \A i \in 1..Len(rc) : rc[i].blocks # TableNow[kw[1]]
    /\ (last.op = "enter" /\ last.kind \in Tags /\ last.alias # "") =>
          /\ last.block \in BlocksOf(last.regsBefore[TableNow[last.alias]])
          /\ last.block.name \in {last.names[i] : i \in 1..Len(last.names)}
    /\ (last.op = "raise" /\ last.kind \in Tags /\ last.entered) =>
          /\ err = NoWidgetFound(last.names)
          /\ \A b \in BlocksOf(regs[TableNow[last.alias]]) :
                b.name \notin {last.names[i] : i \in 1..Len(last.names)}

\* C4: activating a non-empty alias raises "No widget libraries loaded!"
\* exactly when no table was created in this render, raises "No widget
\* library loaded for alias: '<alias>'" exactly when the table exists and
\* lacks the alias, and raises neither (the scope is entered) when the
\* table has the alias.
C4_ActivationErrors ==
    /\ (last.op = "raise" /\ last.kind \in Tags /\ last.alias # "") =>
          LET table == TableOf(last.rcBefore, tabs)
          IN  /\ tabs = <<>> => (err = NoLibraries /\ ~last.entered)
              /\ (tabs # <<>> /\ last.alias \notin DOMAIN table) =>
                    (err = UnknownAlias(last.alias) /\ ~last.entered)
              /\ last.alias \in DOMAIN table =>
                    (last.entered /\ err.msg = NoWidgetFound(last.names).msg)
              /\ ~last.entered => rc = last.rcBefore
              /\ (last.alias = "it's" /\ tabs # <<>>) =>
                    err.msg = "No widget library loaded for alias: \"it's\""
    /\ (last.op = "enter" /\ last.kind \in Tags /\ last.alias # "") =>
          /\ last.alias \in DOMAIN TableOf(last.rcBefore, tabs)
          /\ Active(rc) = TableOf(last.rcBefore, tabs)[last.alias]

\* "zzz:blk" was referenced while the table exists and has no alias zzz.
C4_Witness ==
    /\ last.op = "raise"
    /\ last.alias = "zzz"
    /\ tabs # <<>>
    /\ DOMAIN TableNow # {}
    /\ err.msg = "No widget library loaded for alias: 'zzz'"

\* A step in which a reference with an empty alias is looked up while a
\* block that was resolved through a non-empty alias is being rendered: the
\* registry that is active is the one the enclosing block was found in; no
\* layer is pushed; a block that is found is a block of that registry, and
\* the lookup error means that registry has no block of the name.
C5_Step ==
    (/\ last'.kind \in Tags
     /\ last'.op \in {"enter", "raise"}
     /\ last'.alias = ""
     /\ last'.names # <<>>
     /\ frames # <<>>
     /\ Top(frames).alias # "") =>
        LET reg == Top(frames).reg
            names == {last'.names[i] : i \in 1..Len(last'.names)}
        IN  /\ Active(rc) = reg
            /\ ScopeStack(rc') = ScopeStack(rc)
            /\ last'.op = "enter" =>
                  /\ last'.block \in BlocksOf(regs[reg])
                  /\ last'.block.name \in names
                  /\ Top(frames').reg = reg
            /\ last'.op = "raise" =>
                  /\ err' = NoWidgetFound(last'.names)
                  /\ \A b \in BlocksOf(regs[reg]) : b.name \notin names

\* C5: a reference with an empty alias inside a block that was resolved
\* through a non-empty alias pushes no layer and is looked up in the
\* registry the enclosing block was found in, not in the registry from
\* before that alias was activated nor in another alias's.
C5_EmptyAliasPassthrough == [][C5_Step]_vars

\* Inside block x of p (A's x, off its registry while it is rendered), ":x"
\* found C's x in p's registry; the page's own registry, active before p
\* was activated, is another one and has no x.
C5_Witness ==
    /\ Len(frames) = 2
    /\ frames[1].alias = "p"
    /\ frames[1].block = [doc |-> "A", name |-> "x"]
    /\ frames[2].kind = "widget"
    /\ frames[2].alias = ""
    /\ frames[2].block = [doc |-> "C", name |-> "x"]
    /\ frames[2].reg = frames[1].reg
    /\ rc[1].blocks # NoKey
    /\ rc[1].blocks # frames[2].reg
    /\ BlockAt(regs[rc[1].blocks], "x") = NoBlock

\* C6: a reference with an empty alias never fails with "No widget
\* libraries loaded!" or "No widget library loaded for alias", whether or
\* not a table exists; it is looked up in the registry that is active and
\* pushes no layer.
C6_EmptyAliasNoLibraryError ==
    /\ (last.op = "raise" /\ last.kind \in Tags /\ last.alias = "" /\ last.names # <<>>) =>
          /\ err # NoLibraries
          /\ err # UnknownAlias("")
          /\ err = IF Active(last.rcBefore) = NoKey THEN NoBlockContext
                   ELSE NoWidgetFound(last.names)
          /\ rc = last.rcBefore
    /\ (last.op = "enter" /\ last.kind \in Tags /\ last.alias = "") =>
          /\ rc = last.rcBefore
          /\ last.block \in BlocksOf(last.regsBefore[Active(last.rcBefore)])
    /\ (last.op = "raise" /\ last.kind = "form_field" /\ last.alias = "") =>
          /\ err \notin {NoLibraries, UnknownAlias("")}
          /\ rc = last.rcBefore

\* ":blk" found the page's block while no table was ever created.
C6_Witness ==
    /\ last.op = "enter"
    /\ last.kind = "widget"
    /\ last.alias = ""
    /\ tabs = <<>>
    /\ last.block = [doc |-> "Y", name |-> "blk"]

\* C7: a soft load skips every alias that is in the table: the alias stays
\* bound to the same, unchanged registry and its document is not resolved
\* (no BlockContext is made for it, and a document that does not exist
\* raises nothing); an alias that is not in the table is loaded as usual.
C7_SoftLoadFirstWins ==
    (IsLoad /\ last.soft) =>
        /\ \A i \in 1..Len(last.names) :
              LET a == last.names[i][1]
              IN  a \in DOMAIN TableBefore =>
                      /\ a \in DOMAIN TableNow
                      /\ TableNow[a] = TableBefore[a]
                      /\ regs[TableNow[a]] = last.regsBefore[TableBefore[a]]
        /\ last.op = "load" =>
              /\ Len(regs) = Len(last.regsBefore) + Cardinality(LoadedPairs)
              /\ \A kw \in LoadedPairs :
                    /\ TableNow[kw[1]] > Len(last.regsBefore)
                    /\ Serves(regs[TableNow[kw[1]]], kw[2])
        /\ last.op = "raise" =>
              \E kw \in LoadedPairs : kw[2] \notin DOMAIN Templates

\* C8: a load that is not soft, of documents that exist, returns and binds
\* every alias it names to a new registry that serves the given document,
\* whatever the alias was bound to before; the table exists afterwards
\* (the same table when there was one); every other alias is bound as
\* before.
C8_LoadOverwrites ==
    (IsLoad /\ ~last.soft /\ \A kw \in LoadedPairs : kw[2] \in DOMAIN Templates) =>
        LET named == {last.names[i][1] : i \in 1..Len(last.names)}
        IN  /\ last.op = "load"
            /\ Top(rc).widgets # NoKey
            /\ Top(last.rcBefore).widgets # NoKey =>
                  Top(rc).widgets = Top(last.rcBefore).widgets
            /\ DOMAIN TableNow = (DOMAIN TableBefore) \cup named
            /\ \A i \in 1..Len(last.names) :
                  /\ TableNow[last.names[i][1]] > Len(last.regsBefore)
                  /\ Serves(regs[TableNow[last.names[i][1]]], last.names[i][2])
            /\ \A b \in (DOMAIN TableBefore) \ named :
                  TableNow[b] = TableBefore[b]

\* The definitions of block n along a chain, the most general first: the
\* list a BlockContext holds when the chain's documents were added most
\* derived first.
RECURSIVE LayersFrom(_, _)
LayersFrom(chain, n) ==
    IF chain = <<>> THEN <<>>
    ELSE LayersFrom(Tail(chain), n)
         \o (IF n \in Templates[Head(chain)].blocks
             THEN <<[doc |-> Head(chain), name |-> n]>>
             ELSE <<>>)

\* C9: the registry resolve_blocks fills for a document, from a top dict
\* with an empty BlockContext or none, holds the document's own blocks as
\* the first layer and each ancestor's as a later layer, so that a lookup
\* returns the definition of the most-derived document of the chain that
\* declares the name.
C9_OverrideLayering ==
    (last.op = "resolve" /\ Len(last.names) = 1) =>
        LET d == last.names[1]
            bc == regs[Active(rc)]
        IN  /\ DOMAIN bc = UNION {Templates[t].blocks : t \in ChainDocs(d)}
            /\ \A n \in DOMAIN bc : bc[n] = LayersFrom(ChainOf(d), n)
            /\ \A n \in AllNames : BlockAt(bc, n) = MostDerived(d, n)

\* A (extends B extends C) was resolved: x is A's although C declares it
\* too, y is C's, and x has two layers.
C9_Witness ==
    /\ last.op = "resolve"
    /\ last.names = <<"A">>
    /\ BlockAt(regs[Active(rc)], "x") = [doc |-> "A", name |-> "x"]
    /\ BlockAt(regs[Active(rc)], "y") = [doc |-> "C", name |-> "y"]
    /\ Len(regs[Active(rc)]["x"]) = 2

\* C10: find_block returns the block of the first candidate, in the order
\* given, that the active registry has, and raises "No widget found for"
\* the names when it has none of them; the list auto_widget derives has its
\* seven names in the order of the specification, so that a registry with
\* only the name and the widget blocks yields the name block.
C10_CandidateOrder ==
    (last.kind = "find_block" /\ Active(rc) # NoKey) =>
        LET bc == last.regsBefore[Active(rc)]
            has == {i \in 1..Len(last.names) : BlockAt(bc, last.names[i]) # NoBlock}
        IN  /\ last.op = "found" =>
                  \E i \in has :
                      /\ last.block = BlockAt(bc, last.names[i])
                      /\ last.block.name = last.names[i]
                      /\ \A j \in has : i <= j
            /\ last.op = "raise" => (has = {} /\ err = NoWidgetFound(last.names))
            /\ has # {} => last.op = "found"
            /\ Len(last.names) = 7 =>
                  \E n \in {"title", "other"} :
                      last.names =
                          <<"CharField_TextInput_" \o n, "CharField_" \o n,
                            "TextInput_" \o n, "CharField_TextInput", n,
                            "TextInput", "CharField">>

\* The names of a CharField "title" with a TextInput were looked up in a
\* registry that has of the seven only title and TextInput: the title
\* block.
C10_Witness ==
    /\ last.op = "found"
    /\ last.kind = "find_block"
    /\ last.names = <<"CharField_TextInput_title", "CharField_title",
                      "TextInput_title", "CharField_TextInput", "title",
                      "TextInput", "CharField">>
    /\ {n \in {last.names[i] : i \in 1..7} :
            BlockAt(last.regsBefore[Active(rc)], n) # NoBlock} = {"title", "TextInput"}
    /\ last.block = [doc |-> "X", name |-> "title"]

\* The registry a reference with this alias is looked up in, from a render
\* context whose activation of the alias succeeds.
TargetOf(rc_, tabs_, alias) ==
    IF alias = "" THEN Active(rc_) ELSE TableOf(rc_, tabs_)[alias]

\* The alias of a reference can be activated in this render context.
Activates(rc_, tabs_, alias) ==
    IF alias = "" THEN Active(rc_) # NoKey
    ELSE alias \in DOMAIN TableOf(rc_, tabs_)

\* A step in which widget, nested_widget or form_field has taken its alias
\* and candidate names, where the alias can be activated: if the target
\* registry has none of the candidate names the step raises "No widget
\* found for: <names>", enters no block, returns nothing and leaves the
\* variable scope as it is; otherwise a block is entered.  An error that is
\* raised stays raised.
C11_Step ==
    /\ (/\ last'.kind \in Tags \cup {"form_field"}
        /\ last'.op \in {"raise", "enter"}
        /\ last'.names # <<>>
        /\ Activates(rc, tabs, last'.alias)) =>
          LET bc == regs[TargetOf(rc, tabs, last'.alias)]
              none == \A i \in 1..Len(last'.names) :
                         BlockAt(bc, last'.names[i]) = NoBlock
          IN  /\ none =>
                    /\ last'.op = "raise"
                    /\ pc' = "raise"
                    /\ err' = [type |-> "TemplateSyntaxError",
                               msg |-> "No widget found for: "
                                       \o ReprTuple(last'.names)]
                    /\ frames' = frames
                    /\ ctx' = ctx
                    /\ last'.block = NoBlock
                    /\ last'.ret = ""
              /\ ~none => (last'.op = "enter" /\ pc' = "run" /\ last'.block # NoBlock)
    /\ pc = "raise" => (pc' = "raise" /\ err' = err)

\* C11: in the widget, nested_widget and form_field paths a lookup none of
\* whose candidate names is in the active registry fails with "No widget
\* found for" the names: the error propagates, no block is rendered,
\* nothing is returned and no `as` variable is bound.
C11_LookupErrorPropagates == [][C11_Step]_vars

\* C12: reuse never fails for a missing block.  When no candidate is in
\* the active registry, or no registry is active, it returns '' and leaves
\* the variable scope and the scope stack as they are; otherwise it renders
\* the first candidate the active registry has, with its overrides pushed
\* and no scope activated.  The table plays no part.
C12_ReuseNeverFails ==
    /\ last.kind = "reuse" => (last.op \in {"empty", "enter"} /\ pc = "run")
    /\ last.op = "empty" =>
          /\ last.ret = ""
          /\ err = NoError
          /\ rc = last.rcBefore
          /\ ctx = last.ctxBefore
          /\ Active(rc) # NoKey =>
                \A i \in 1..Len(last.names) :
                    /\ BlockAt(last.regsBefore[Active(rc)], last.names[i]) = NoBlock
                    /\ BlockAt(regs[Active(rc)], last.names[i]) = NoBlock
    /\ (last.op = "enter" /\ last.kind = "reuse") =>
          /\ rc = last.rcBefore
          /\ Active(rc) # NoKey
          /\ SubSeq(ctx, 1, Len(last.ctxBefore) + 1) =
                Append(last.ctxBefore, Top(frames).kwargs)
          /\ \E i \in 1..Len(last.names) :
                /\ last.block # NoBlock
                /\ last.block = BlockAt(last.regsBefore[Active(rc)], last.names[i])
                /\ \A j \in 1..(i - 1) :
                      BlockAt(last.regsBefore[Active(rc)], last.names[j]) = NoBlock

\* {% reuse names k="w" %} with names ["nope", "x"] has returned '' although
\* the library bound to p has a block x: p's registry is not the active
\* one.
C12_Witness ==
    /\ last.op = "empty"
    /\ last.names = <<"nope", "x">>
    /\ "p" \in DOMAIN TableNow
    /\ BlockAt(regs[TableNow["p"]], "x") # NoBlock
    /\ Active(rc) # TableNow["p"]
    /\ ctx = last.ctxBefore

\* The step in which the block of a widget or nested_widget returns.  With
\* an `as` variable the directive returns '' and the caller's scope (the
\* context as it was before the directive, the override layers and the
\* library scope removed) has the variable bound to the rendered string
\* and is otherwise as before; without one the directive returns the
\* rendered string and the caller's scope is as before.
C13_Step ==
    (/\ last'.op = "return"
     /\ frames # <<>>
     /\ Top(frames).kind \in {"widget", "nested_widget"}) =>
        LET f == Top(frames)
            n == Len(f.ctxBefore)
        IN  /\ Len(ctx') = n
            /\ ScopeStack(rc') = ScopeStack(f.rcBefore)
            /\ \A i \in 1..(n - 1) : ctx'[i] = f.ctxBefore[i]
            /\ IF f.asvar # ""
               THEN /\ last'.ret = ""
                    /\ DOMAIN ctx'[n] = (DOMAIN f.ctxBefore[n]) \cup {f.asvar}
                    /\ ctx'[n][f.asvar] = Text(f.block)
                    /\ Lookup(ctx', f.asvar) = [err |-> NoError, value |-> Text(f.block)]
                    /\ \A k \in (DOMAIN ctx'[n]) \ {f.asvar} :
                          ctx'[n][k] = f.ctxBefore[n][k]
               ELSE /\ last'.ret = Text(f.block)
                    /\ ctx' = f.ctxBefore

\* C13: store-as.  A widget or nested_widget with an `as` variable binds
\* the rendered string to it in the caller's scope and emits ''; without
\* one it emits the rendered string and binds nothing.
C13_StoreAs == [][C13_Step]_vars

\* {% nested_widget "q:blk" r="v" as r %} has returned at the top level: it
\* emitted '' and the page's r is the rendered block, not the override.
C13_Witness ==
    /\ last.op = "return"
    /\ last.block = [doc |-> "X", name |-> "blk"]
    /\ last.ret = ""
    /\ frames = <<>>
    /\ Len(ctx) = 1
    /\ Len(rc) = 1
    /\ Lookup(ctx, "r") = [err |-> NoError, value |-> "X.blk"]
    /\ "r" \notin DOMAIN last.ctxBefore[1]

\* The two steps of nested_widget before its block is rendered.  Entering:
\* the overrides are pushed as one layer and the nested body is rendered
\* next, so the body sees every override (and no content of this
\* directive).  Body done: one more layer is pushed that binds content to
\* the string the body rendered to, and block.render is called (the host
\* puts its own dict, which binds `block`, on top); everything below, the
\* overrides included, is as the body left it, whatever the string and
\* whatever the overrides' keys.
C14_Step ==
    /\ (last'.op = "enter" /\ last'.kind = "nested_widget") =>
          LET f == Top(frames')
          IN  /\ f.phase = "body"
              /\ ctx' = Append(ctx, f.kwargs)
              /\ \A k \in DOMAIN f.kwargs :
                    Lookup(ctx', k) = [err |-> NoError, value |-> f.kwargs[k]]
              /\ "content" \notin DOMAIN f.kwargs =>
                    Lookup(ctx', "content") = Lookup(ctx, "content")
    /\ last'.op = "body" =>
          /\ Top(frames).phase = "body"
          /\ frames' = [frames EXCEPT ![Len(frames)].phase = "block",
                                      ![Len(frames)].push = Top(frames).block]
          /\ Len(ctx') = Len(ctx) + 2
          /\ SubSeq(ctx', 1, Len(ctx)) = ctx
          /\ DOMAIN ctx'[Len(ctx) + 1] = {"content"}
          /\ DOMAIN Top(ctx') = {"block"}
          /\ Lookup(Pop(ctx'), "content") = [err |-> NoError, value |-> last'.ret]
          /\ Lookup(ctx', "content") = [err |-> NoError, value |-> last'.ret]
          /\ \A k \in (DOMAIN Top(ctx)) \ {"content"} :
                Lookup(Pop(ctx'), k) = Lookup(ctx, k)
          /\ UNCHANGED <<rc, tabs, pc, err>>

\* C14: nested_widget renders the nested body inside the layer of the
\* overrides and then the block with content bound to the rendered body
\* together with the same overrides; the body's text decides the value of
\* content and nothing else.
C14_NestedContent == [][C14_Step]_vars

\* {% nested_widget "p:x" content="mine" %}c2{% endnested %}: the block is
\* about to be rendered with content "c2" over the override "mine".
C14_Witness ==
    /\ last.op = "body"
    /\ last.ret = "c2"
    /\ Top(frames).phase = "block"
    /\ Top(frames).kwargs = [k \in {"content"} |-> "mine"]
    /\ Lookup(ctx, "content") = [err |-> NoError, value |-> "c2"]
    /\ ctx[Len(ctx) - 2] = [k \in {"content"} |-> "mine"]

\* Entering a directive pushes its overrides as one layer on the context
\* as it is (when the block is rendered at once, the host's dict that binds
\* `block` is on top of it).  Leaving the directive, by return or by an error,
\* leaves the context with the depth from before and, but for the `as`
\* variable of a return, with the bindings from before: no override and no
\* content of the directive is visible any more.
C15_Step ==
    /\ last'.op = "enter" =>
          /\ Top(frames').ctxBefore = ctx
          /\ SubSeq(ctx', 1, Len(ctx) + 1) = Append(ctx, Top(frames').kwargs)
          /\ Len(ctx') \in {Len(ctx) + 1, Len(ctx) + 2}
          /\ Len(ctx') = Len(ctx) + 2 => DOMAIN Top(ctx') = {"block"}
    /\ last'.op \in {"return", "unwind"} =>
          LET f == Top(frames)
              bound == IF last'.op = "return" /\ f.asvar # ""
                       THEN {f.asvar} ELSE {}
              n == Len(f.ctxBefore)
          IN  /\ Len(ctx') = n
              /\ \A i \in 1..(n - 1) : ctx'[i] = f.ctxBefore[i]
              /\ (DOMAIN ctx'[n]) \ bound = (DOMAIN f.ctxBefore[n]) \ bound
              /\ \A k \in (DOMAIN ctx'[n]) \ bound : ctx'[n][k] = f.ctxBefore[n][k]
              /\ \A k \in ((DOMAIN f.kwargs) \cup {"content"}) \ bound :
                    Lookup(ctx', k) = Lookup(f.ctxBefore, k)
              /\ bound = {} => ctx' = f.ctxBefore
    /\ (last'.op = "raise" /\ last'.kind = "form_field") =>
          UNCHANGED <<ctx, frames>>

\* C15: rendering a block with overrides (widget, nested_widget, reuse;
\* form_field raises before it renders a block and pushes nothing) pushes
\* one layer with the overrides for the time of the block render and pops
\* it on exit, on success and on failure alike; the caller's scope has the
\* same depth and bindings afterwards.
C15_OverrideLayers == [][C15_Step]_vars

\* A block that was rendered with overrides raised, and the error has left
\* the directive: the page's context is as before, without k and content.
C15_Witness ==
    /\ last.op = "unwind"
    /\ err = RenderError
    /\ frames = <<>>
    /\ ctx = last.ctxBefore
    /\ Len(ctx) = 1
    /\ Lookup(ctx, "k").err = KeyError("k")
    /\ Lookup(ctx, "content").err = KeyError("content")

\* C16: resolve_blocks called a second time for the same document chain
\* against the same registry leaves the registry with the same layers as
\* after the first call, and every lookup with the same result.
C16_ResolverIdempotent ==
    (/\ last.op = "resolve"
     /\ Len(last.names) >= 2
     /\ last.names[Len(last.names)] = last.names[Len(last.names) - 1]) =>
        /\ Active(rc) = Active(last.rcBefore)
        /\ regs[Active(rc)] = last.regsBefore[Active(rc)]
        /\ \A n \in AllNames :
              BlockAt(regs[Active(rc)], n) =
                  BlockAt(last.regsBefore[Active(rc)], n)

\* A widget, nested_widget or form_field step whose reference has no ":",
\* or a widget or nested_widget step whose alias is not in a table (there
\* is no table, or the table lacks the alias): it raises a TemplateSyntaxError, no scope was entered, and
\* the render context, the registries, the table, the variable scope and
\* the blocks being rendered are as before.
C17_Step ==
    (/\ last'.op \in {"raise", "enter"}
     /\ \/ last'.kind \in Tags \cup {"form_field"} /\ last'.names = <<>>
        \/ /\ last'.kind \in Tags
           /\ last'.alias # ""
           /\ last'.alias \notin DOMAIN TableOf(rc, tabs)) =>
        /\ last'.op = "raise"
        /\ pc' = "raise"
        /\ err'.type = "TemplateSyntaxError"
        /\ ~last'.entered
        /\ UNCHANGED <<rc, regs, tabs, ctx, frames>>

\* C17: a failed activation changes nothing.  When using raises for a
\* missing table or alias, or parse_widget_name for a reference without
\* ":", no layer was pushed: scope stack, active registry, table and
\* variable scope are as before the directive.
C17_FailedActivation == [][C17_Step]_vars

\* Inside a block, under an active scope, "zzz:x" was referenced.
C17_Witness ==
    /\ last.op = "raise"
    /\ last.alias = "zzz"
    /\ err = UnknownAlias("zzz")
    /\ frames # <<>>
    /\ Len(rc) >= 2
    /\ rc = last.rcBefore
    /\ ctx = last.ctxBefore

\* C18: load_widgets leaves the active registry untouched.  The call
\* raises only when a document fails to load.  After the call, whether it
\* returned or a document failed to load, the scope stack
\* is the one from before, every registry that existed is unchanged (the
\* active one among them), and the registries made by the call are in no
\* scope layer: after a return each is bound to an alias of the table.
C18_LoadLeavesActiveRegistry ==
    IsLoad =>
        /\ last.op = "raise" => \E kw \in LoadedPairs : kw[2] \notin DOMAIN Templates
        /\ last.op = "load" =>
              \A kw \in LoadedPairs :
                  /\ TableNow[kw[1]] > Len(last.regsBefore)
                  /\ Serves(regs[TableNow[kw[1]]], kw[2])
        /\ Len(rc) = Len(last.rcBefore)
        /\ ScopeStack(rc) = ScopeStack(last.rcBefore)
        /\ Len(regs) >= Len(last.regsBefore)
        /\ SubSeq(regs, 1, Len(last.regsBefore)) = last.regsBefore
        /\ Active(rc) # NoKey =>
              /\ Active(rc) <= Len(last.regsBefore)
              /\ BlocksOf(regs[Active(rc)]) =
                    BlocksOf(last.regsBefore[Active(last.rcBefore)])
        /\ \A r \in (Len(last.regsBefore) + 1)..Len(regs) :
              /\ \A i \in 1..Len(rc) : rc[i].blocks # r
              /\ last.op = "load" => \E a \in DOMAIN TableNow : TableNow[a] = r

\* Every step leaves at most one table in the render, exposed by every
\* layer above the bottom one; a step that activates an alias pushes a
\* layer with the table the alias was looked up in; no step unbinds an
\* alias for the layer that is on top afterwards; a load_widgets of
\* documents that exist returns, and the aliases it names are bound in the
\* table of the bottom layer, the one left when every scope is deactivated.
C19_Step ==
    /\ Len(tabs') <= 1
    /\ \A i \in 2..Len(rc') :
          rc'[i].widgets # NoKey /\ rc'[i].widgets = rc'[1].widgets
    /\ (last'.op = "enter" /\ last'.entered) =>
          /\ Len(rc') = Len(rc) + 1
          /\ Top(rc').widgets = Top(rc).widgets
          /\ last'.alias \in DOMAIN tabs[Top(rc).widgets]
    /\ DOMAIN TableOf(rc, tabs) \subseteq DOMAIN TableOf(rc', tabs')
    /\ (/\ last'.kind = "load_widgets"
        /\ \A i \in 1..Len(last'.names) : last'.names[i][2] \in DOMAIN Templates) =>
          last'.op = "load"
    /\ last'.op = "load" =>
          \A i \in 1..Len(last'.names) :
              last'.names[i][1] \in DOMAIN tabs'[rc'[1].widgets]

\* C19: one table per render.  The layer using pushes exposes the table
\* the alias was looked up in, so a load_widgets inside a scope changes
\* that one table, its aliases stay bound when the scope is left, and
\* every alias loaded earlier can be resolved inside any scope.
C19_OneTable == [][C19_Step]_vars

\* The steps of a nested_widget with a non-empty alias.  Entering pushes
\* the alias's layer and the nested body is rendered next.  While the body
\* is rendered the active registry is the one the alias is bound to, and a
\* widget with an empty alias or a reuse in the body is looked up there: it
\* enters the first of its names that registry has a block for, and fails
\* (or, for reuse, returns '') only when that registry has none of them.
C20_Step ==
    /\ (last'.op = "enter" /\ last'.kind = "nested_widget" /\ last'.alias # "") =>
          /\ Top(frames').phase = "body"
          /\ Len(rc') = Len(rc) + 1
          /\ Active(rc') = TableOf(rc, tabs)[last'.alias]
          /\ Top(frames').reg = Active(rc')
    /\ (/\ frames # <<>>
        /\ Top(frames).kind = "nested_widget"
        /\ Top(frames).alias # ""
        /\ Top(frames).phase = "body"
        /\ pc = "run") =>
          /\ Active(rc) = Top(frames).reg
          /\ rc[Len(Top(frames).rcBefore) + 1].blocks = Top(frames).reg
          /\ (/\ last'.op \in {"enter", "raise", "empty"}
              /\ last'.kind \in Tags \cup {"reuse"}
              /\ last'.alias = ""
              /\ last'.names # <<>>) =>
                LET bc == regs[Top(frames).reg]
                    has == {j \in 1..Len(last'.names) :
                               BlockAt(bc, last'.names[j]) # NoBlock}
                IN  /\ has = {} => last'.op \in {"raise", "empty"}
                    /\ has # {} =>
                          /\ last'.op = "enter"
                          /\ Top(frames').reg = Top(frames).reg
                          /\ \E j \in has :
                                /\ last'.block = BlockAt(bc, last'.names[j])
                                /\ \A i \in has : j <= i

\* C20: the nested body of a nested_widget with a non-empty alias is
\* rendered while that alias's scope is active; a widget with an empty
\* alias or a reuse inside the body is looked up in the alias's registry,
\* not in the registry that was active where the nested_widget appears.
C20_NestedBodyScope == [][C20_Step]_vars

\* In the body of {% nested_widget "q:blk" %} on a page whose own registry
\* has a block blk, {% widget ":blk" %} found q's blk, not the page's.
C20_Witness ==
    /\ Len(frames) = 2
    /\ frames[1].kind = "nested_widget"
    /\ frames[1].alias = "q"
    /\ frames[1].phase = "body"
    /\ frames[2].alias = ""
    /\ frames[2].names = <<"blk">>
    /\ frames[2].block = [doc |-> "X", name |-> "blk"]
    /\ Active(frames[1].rcBefore) # NoKey
    /\ BlockAt(regs[Active(frames[1].rcBefore)], "blk") = [doc |-> "Y", name |-> "blk"]

====
